---- MODULE Spec2Model ----
(***************************************************************************)
(* Model of the redis-postgres-pipeline: producers (ingest_orders),        *)
(* workers (Worker.run / process_batch, Worker.stop), the preload of the   *)
(* lookup cache (initialize_lookup_cache) and the operator's promotion     *)
(* (promote_to_production), over the Redis structures of redis_utils.py    *)
(* and the Postgres tables reached through postgres_utils.py; and of the   *)
(* EventConsumer of python-redis-streaming (consumer.py).                  *)
(*                                                                         *)
(* Every Redis command is one atomic step (Redis executes commands one at  *)
(* a time; a redis-py pipeline() is MULTI/EXEC).  Python code between two  *)
(* commands is local to its process and is folded into the step of the     *)
(* command that precedes it.                                               *)
(***************************************************************************)
EXTENDS Integers, Sequences, FiniteSets, TLC

----------------------------------------------------------------------------
(* Bounds of the model *)

\* calls of ingest_orders made by each producer
MaxIngest == 1
\* Worker.run(max_iterations)
MaxIterations == 2
\* calls of promote_to_production made by the operator
MaxPromote == 2
\* pipeline_config.batch_size, scaled down
BatchSize == 2
\* pipeline_config.max_queue_depth, scaled down
MaxQueueDepth == 2
\* expiries of the dedup window
MaxExpire == 1
\* operations of the stand-alone RedisBackpressure / RedisQueue specifications
MaxOps == 5
\* largest amount passed to increment / decrement
MaxAmount == 2
\* calls of initialize_lookup_cache
MaxPreload == 2
\* changes made to the reference tables
MaxRefUpdates == 1
\* EventConsumer: config.stream.batch_size, scaled down
ConsumerBatchSize == 2
\* EventConsumer: config.stream.batch_timeout_seconds, in ticks of the clock
ConsumerBatchTimeout == 2
\* EventConsumer: config.stream.xread_count, scaled down
XreadCount == 2
\* ticks of the clock read by time.time()
MaxTime == 4
\* events ever delivered to the consumer by XREADGROUP
MaxEvents == 4

\* calls of the CLI clear command
MaxClear == 1
\* times the orders of a rejected ingest_orders call are submitted again
MaxResubmit == 1
\* settings.max_job_attempts, backoff_base_seconds and backoff_cap_seconds of
\* the ingestion worker, and the number of job runs the scheduler enqueues
MaxJobAttempts == 3
BackoffBaseSeconds == 2
BackoffCapSeconds == 3
MaxRuns == 2

Producers == {"p1", "p2"}
Workers == {"w1", "w2"}
OrderIds == {1, 2, 3}
BpQueues == {"ingestion", "processing"}

----------------------------------------------------------------------------
(* Redis values.  A key is <<>> when it does not exist and <<v>> when it   *)
(* holds v.                                                                *)

Absent == <<>>
Exists(k) == k # <<>>

\* INCRBY / DECRBY: a missing key counts as 0
incrby(k, n) == IF Exists(k) THEN <<k[1] + n>> ELSE <<n>>
decrby_bad(k, n) == IF Exists(k) THEN <<k[1] + n>> ELSE <<n>>
decrby(k, n) == IF Exists(k) THEN <<k[1] - n>> ELSE <<0 - n>>

\* json.dumps / json.loads of a job
json_dumps(job) == [json |-> job]
json_loads(s) == s.json

Range(f) == {f[x] : x \in DOMAIN f}

RECURSIVE Reverse(_)
Reverse(s) == IF s = <<>> THEN <<>> ELSE Reverse(Tail(s)) \o <<Head(s)>>

\* LPUSH key v1 .. vn: each value in turn becomes the new head
lpush_bad(list, vals) == vals \o list
lpush(list, vals) == Reverse(vals) \o list
\* BRPOP takes the tail
brpop_value(list) == list[Len(list)]
brpop_rest_bad(list) == list
brpop_rest(list) == SubSeq(list, 1, Len(list) - 1)

----------------------------------------------------------------------------
(* RedisBackpressure *)

get_depth(k) == IF Exists(k) THEN k[1] ELSE 0

should_throttle_bad(k, max_depth) == get_depth(k) > max_depth
should_throttle(k, max_depth) == get_depth(k) >= max_depth

----------------------------------------------------------------------------
(* The orders.  An order's reference fields are fixed by its id.           *)

OrderOf(i) ==
    [order_id |-> i,
     product_id |-> IF i = 1 THEN "P1" ELSE "P2",
     currency |-> "USD",
     zip_code |-> "Z1"]

CacheKeys == {"product:P1", "product:P2", "currency:USD", "zipcode:Z1"}

\* the lookup hash: field -> <<>> (no such field) or <<value>>
CacheOf(absent, rate) ==
    [k \in CacheKeys |->
        IF k \in absent THEN Absent
        ELSE IF k = "currency:USD" THEN <<rate>> ELSE <<"json">>]

CacheSnapshots ==
    {CacheOf({}, 1), CacheOf({"product:P2"}, 1), CacheOf({}, 0),
     CacheOf(CacheKeys, 1)}

\* the lists of order ids handed to ingest_orders by a single producer
OrderLists == {<<>>, <<1>>, <<1, 2>>, <<1, 2, 3>>, <<2, 3, 1>>}

\* the lists of order ids handed to ingest_orders when several workers drain
QueueLists == {<<2, 1>>, <<1, 2, 3>>}

\* the lists of order ids handed to ingest_orders when rejected calls are
\* submitted again
ResubmitLists == {<<3>>, <<2, 3>>, <<3, 1>>}

\* the lists of order ids handed to ingest_orders by the concurrent producers
SharedLists == {<<>>, <<1>>, <<2>>, <<1, 2>>, <<2, 1>>, <<1, 1>>}

----------------------------------------------------------------------------
VARIABLES
    \* Redis
    queue,        \* list orders:ingestion, head first
    qcounter,     \* key orders:ingestion:counter
    dedup,        \* fields of the hash orders:dedup
    dedupTTL,     \* TRUE when the hash orders:dedup carries an expiry
    bp,           \* keys backpressure:<queue>
    cache,        \* hash lookups
    events,       \* messages published on pipeline:events, in order
    \* Postgres (committed state)
    staging,      \* rows of orders_staging
    durable,      \* rows of orders
    views,        \* rows the materialized views were last computed from
    refreshes,    \* number of committed refresh_all_materialized_views()
    \* a producer inside ingest_orders
    ppc, porders, pidx, pnew, pstats, pisnew, pcalls, pret,
    pghost,       \* of the producer's current call: the backpressure depth when it
                  \* began, the entries it pushed onto the queue, and what it
                  \* added to the backpressure counter
    \* a worker inside Worker.run / process_batch
    wpc, wbatch, wenriched, wstats, witer, wret, wlost,
    \* the operator inside promote_to_production
    opc, otx, ocalls, oret, opre,
    \* history
    firstCall,    \* result of the first mark_seen made with an order_id
    laterNew,     \* a later mark_seen with that order_id returned True
    pushed,       \* times an order_id was pushed onto the ingestion queue
    resets,       \* times the dedup window expired
    everStaged,   \* every row a bulk insert committed
    bpHist,       \* per queue: net = increments minus decrements since the last
                  \* reset, peak = largest net value since then
    totalPushed,  \* jobs ever pushed onto the ingestion queue
    ops,          \* operations made by the stand-alone specifications
    popped,       \* times a worker's pop returned an order_id
    clr,          \* the CLI clear command: its flags, the step it is at and the
                  \* calls made
    ttlMoved,     \* an EXPIRE was applied to the dedup window while it
                  \* already carried an expiry (since the window last expired)
    \* Worker: self.running, the max_iterations of run() (0 for None), and
    \* where the worker was when stop() was called ("none" before the call)
    wrunning, wmax, wstopAt,
    \* the reference tables of Postgres and initialize_lookup_cache
    refTables,    \* the keys the rows of the three reference tables give
    lpc, lrows, lcalls,
    lpre,         \* the lookup hash and the reference keys when the last
                  \* preload began, and the reference changes made so far
    \* EventConsumer (python-redis-streaming)
    cpc,          \* where consume() is
    cbatch,       \* self.batch, as the ids of its events
    clast,        \* self.last_batch_time
    cnow,         \* time.time()
    cread,        \* events delivered so far
    cprocessed,   \* self.processed_count
    cerrors,      \* self.error_count
    cflush,       \* the last should_flush_batch call: what it saw and returned
    chanded,      \* events handed to the process_batch calls that returned
    ccall,        \* the last process_batch call: what it was given, how it
                  \* ended and what it left
    cstore,       \* the ids of the events in the events table (inserted),
                  \* acknowledged on the stream (acked) and in the dead-letter
                  \* stream (dlq)
    \* IngestionWorker (read-from-everywhere-platform)
    jq,           \* the Redis list of jobs, head first
    jpc,          \* where _consume_loop is
    jjob,         \* the job _handle_job was given
    jtasks,       \* the _enqueue_later tasks that have not ended
    jnow,         \* the clock of the event loop, in seconds
    jstore        \* what the runs left: the runs enqueued, the calls of
                  \* _handle_job per run, the jobs whose _handle_failure ended,
                  \* the rows of ingestion_failures, the dead-letter writes per
                  \* run and the re-enqueues made

redisVars == <<queue, qcounter, dedup, dedupTTL, bp, cache, events>>
pgVars == <<staging, durable, views, refreshes>>
producerVars == <<ppc, porders, pidx, pnew, pstats, pisnew, pcalls, pret, pghost>>
workerVars == <<wpc, wbatch, wenriched, wstats, witer, wret, wlost>>
operatorVars == <<opc, otx, ocalls, oret, opre>>
histVars == <<firstCall, laterNew, pushed, resets, everStaged, bpHist, totalPushed, ops>>
wctlVars == <<wrunning, wmax, wstopAt>>
loaderVars == <<refTables, lpc, lrows, lcalls, lpre>>
consumerVars == <<cpc, cbatch, clast, cnow, cread, cprocessed, cerrors, cflush, chanded,
                  ccall, cstore>>
retryVars == <<jq, jpc, jjob, jtasks, jnow, jstore>>
extVars == <<loaderVars, consumerVars, ttlMoved, clr, retryVars>>
vars == <<redisVars, pgVars, producerVars, workerVars, operatorVars, histVars,
          popped, wctlVars, extVars>>

\* no job in hand
NoJob == [run_id |-> 0, attempt |-> 0]

\* the stores before any job ran
JobStore0 ==
    [enqueued |-> {}, calls |-> [r \in 1..MaxRuns |-> 0], ended |-> {},
     failures |-> {}, dead |-> [r \in 1..MaxRuns |-> 0], pushes |-> {},
     copies |-> [r \in 1..MaxRuns |-> 0], succeeded |-> {}]

\* the clear command when it is not running, after a number of calls
ClearIdle(calls) ==
    [step |-> "idle", all |-> FALSE, queues |-> FALSE, cache |-> FALSE,
     dedup |-> FALSE, calls |-> calls]

\* the history of a backpressure counter after a change of d
Moved(h, d) == [net |-> h.net + d, peak |-> IF h.net + d > h.peak THEN h.net + d ELSE h.peak]

IngestStats0(n) == [total |-> n, new |-> 0, duplicates |-> 0, queued |-> 0]
BatchStats0 == [processed |-> 0, enriched |-> 0, staged |-> 0, errors |-> 0]

Init ==
    /\ queue = <<>>
    /\ qcounter = Absent
    /\ dedup = {}
    /\ dedupTTL = FALSE
    /\ bp = [q \in BpQueues |-> Absent]
    /\ cache \in CacheSnapshots
    /\ events = <<>>
    /\ staging = {}
    /\ durable = {}
    /\ views = {}
    /\ refreshes = 0
    /\ ppc = [p \in Producers |-> "idle"]
    /\ porders = [p \in Producers |-> <<>>]
    /\ pidx = [p \in Producers |-> 1]
    /\ pnew = [p \in Producers |-> <<>>]
    /\ pstats = [p \in Producers |-> IngestStats0(0)]
    /\ pisnew = [p \in Producers |-> FALSE]
    /\ pcalls = [p \in Producers |-> 0]
    /\ pret = [p \in Producers |-> <<>>]
    /\ pghost = [p \in Producers |-> [depth0 |-> 0, pushed |-> 0, bpadd |-> 0]]
    /\ wpc = [w \in Workers |-> "new"]
    /\ wbatch = [w \in Workers |-> <<>>]
    /\ wenriched = [w \in Workers |-> <<>>]
    /\ wstats = [w \in Workers |-> BatchStats0]
    /\ witer = [w \in Workers |-> 0]
    /\ wret = [w \in Workers |-> <<>>]
    /\ wlost = [w \in Workers |-> <<>>]
    /\ opc = "idle"
    /\ otx = [inserted |-> {}, deleted |-> {}, inserted_count |-> 0]
    /\ ocalls = 0
    /\ oret = <<>>
    /\ opre = [staging |-> {}, durable |-> {}, views |-> {}, refreshes |-> 0,
               promoted |-> 0, snap |-> {}]
    /\ firstCall = [i \in OrderIds |-> "none"]
    /\ laterNew = [i \in OrderIds |-> FALSE]
    /\ pushed = [i \in OrderIds |-> 0]
    /\ resets = 0
    /\ everStaged = {}
    /\ bpHist = [q \in BpQueues |-> [net |-> 0, peak |-> 0]]
    /\ totalPushed = 0
    /\ ops = 0
    /\ popped = [i \in OrderIds |-> 0]
    /\ ttlMoved = FALSE
    /\ jq = <<>>
    /\ jpc = "blpop"
    /\ jjob = NoJob
    /\ jtasks = {}
    /\ jnow = 0
    /\ jstore = JobStore0
    /\ clr = ClearIdle(0)
    /\ wrunning = [w \in Workers |-> FALSE]
    /\ wmax = [w \in Workers |-> 0]
    /\ wstopAt = [w \in Workers |-> "none"]
    /\ refTables = CacheKeys
    /\ lpc = [step |-> "idle", table |-> 0]
    /\ lrows = <<>>
    /\ lcalls = 0
    /\ lpre = [cache |-> cache, tables |-> CacheKeys, updates |-> 0]
    /\ cpc = "read"
    /\ cbatch = <<>>
    /\ clast = 0
    /\ cnow = 0
    /\ cread = 0
    /\ cprocessed = 0
    /\ cerrors = 0
    /\ cflush = <<>>
    /\ chanded = 0
    /\ ccall = <<>>
    /\ cstore = [inserted |-> {}, acked |-> {}, dlq |-> {}]

----------------------------------------------------------------------------
(* RedisDeduplicator *)

\* HSETNX window record_id ts: 1 when the field was created, 0 when it exists
hsetnx_bad(window, record_id) == TRUE
hsetnx(window, record_id) == record_id \notin window

\* the hash orders:dedup expires: the key and its expiry are gone
DedupExpire ==
    /\ dedupTTL
    /\ resets < MaxExpire
    /\ dedup' = {}
    /\ dedupTTL' = FALSE
    /\ resets' = resets + 1
    /\ ttlMoved' = FALSE
    /\ UNCHANGED <<queue, qcounter, bp, cache, events, pgVars, producerVars,
                   workerVars, operatorVars, firstCall, laterNew, pushed,
                   everStaged, bpHist, totalPushed, ops>>
    /\ UNCHANGED <<loaderVars, consumerVars, clr, retryVars, wctlVars, popped>>

\* the lists of record ids handed to mark_batch
BatchIdLists == {<<>>, <<1>>, <<2, 3>>}

\* mark_batch: nothing for an empty list; else one MULTI/EXEC with an HSETNX
\* for each record id and an EXPIRE of the hash, which replaces the expiry the
\* hash carries by one that is ttl_seconds after this call
MarkBatch(record_ids) ==
    /\ ops < MaxOps
    /\ IF record_ids = <<>>
       THEN UNCHANGED <<dedup, dedupTTL, ttlMoved>>
       ELSE /\ dedup' = dedup \cup {record_ids[i] : i \in 1..Len(record_ids)}
            /\ dedupTTL' = TRUE
            /\ ttlMoved' = (ttlMoved \/ dedupTTL)
    /\ ops' = ops + 1
    /\ UNCHANGED <<queue, qcounter, bp, cache, events, pgVars, producerVars,
                   workerVars, operatorVars, firstCall, laterNew, pushed, resets,
                   everStaged, bpHist, totalPushed>>
    /\ UNCHANGED <<loaderVars, consumerVars, clr, retryVars, wctlVars, popped>>

----------------------------------------------------------------------------
(* PipelineOrchestrator.ingest_orders, one producer p *)

\* return stats
IngestReturn(p, stats, throttled) ==
    /\ pret' = [pret EXCEPT ![p] =
                  <<[stats |-> stats, n |-> Len(porders[p]), throttled |-> throttled]>>]
    /\ pcalls' = [pcalls EXCEPT ![p] = @ + 1]
    /\ ppc' = [ppc EXCEPT ![p] = "idle"]

\* stats = {...}; if should_throttle: return stats
IngestCall(p, orders) ==
    /\ porders' = [porders EXCEPT ![p] = orders]
    /\ pidx' = [pidx EXCEPT ![p] = 1]
    /\ pnew' = [pnew EXCEPT ![p] = <<>>]
    /\ pstats' = [pstats EXCEPT ![p] = IngestStats0(Len(orders))]
    /\ IF should_throttle(bp["ingestion"], MaxQueueDepth)
       THEN /\ pret' = [pret EXCEPT ![p] =
                          <<[stats |-> IngestStats0(Len(orders)), n |-> Len(orders),
                             throttled |-> TRUE]>>]
            /\ pcalls' = [pcalls EXCEPT ![p] = @ + 1]
            /\ UNCHANGED ppc
       ELSE IF orders = <<>>
       THEN /\ pret' = [pret EXCEPT ![p] =
                          <<[stats |-> IngestStats0(0), n |-> 0, throttled |-> FALSE]>>]
            /\ pcalls' = [pcalls EXCEPT ![p] = @ + 1]
            /\ UNCHANGED ppc
       ELSE /\ ppc' = [ppc EXCEPT ![p] = "hsetnx"]
            /\ UNCHANGED <<pret, pcalls>>
    /\ pghost' = [pghost EXCEPT ![p] = [depth0 |-> bpHist["ingestion"].net, pushed |-> 0,
                                        bpadd |-> 0]]
    /\ UNCHANGED <<redisVars, pgVars, pisnew, workerVars, operatorVars, histVars>>
    /\ UNCHANGED <<extVars, wctlVars, popped>>

\* a call of ingest_orders(orders)
IngestStart(p, orders) ==
    /\ ppc[p] = "idle"
    /\ pcalls[p] < MaxIngest
    /\ IngestCall(p, orders)

\* the caller submits again the orders of a call that backpressure rejected
IngestResubmit(p) ==
    /\ ppc[p] = "idle"
    /\ pret[p] # <<>>
    /\ pret[p][1].throttled
    /\ pcalls[p] < MaxIngest + MaxResubmit
    /\ IngestCall(p, porders[p])

\* mark_seen returned is_new: count the order, go on with the next one, and
\* after the last one return when new_orders is empty
AfterMarkSeen(p, is_new) ==
    LET order == porders[p][pidx[p]]
        new_orders == IF is_new THEN Append(pnew[p], order) ELSE pnew[p]
        stats == IF is_new THEN [pstats[p] EXCEPT !.new = @ + 1]
                 ELSE [pstats[p] EXCEPT !.duplicates = @ + 1]
        last == pidx[p] = Len(porders[p])
    IN /\ pnew' = [pnew EXCEPT ![p] = new_orders]
       /\ pstats' = [pstats EXCEPT ![p] = stats]
       /\ pidx' = [pidx EXCEPT ![p] = @ + 1]
       /\ IF last /\ new_orders = <<>>
          THEN IngestReturn(p, stats, FALSE)
          ELSE /\ ppc' = [ppc EXCEPT ![p] = IF last THEN "push" ELSE "hsetnx"]
               /\ UNCHANGED <<pret, pcalls>>

\* mark_seen: is_new = hsetnx(window, record_id, timestamp)
MarkSeenHsetnx(p) ==
    /\ ppc[p] = "hsetnx"
    /\ LET id == porders[p][pidx[p]].order_id
           is_new == hsetnx(dedup, id)
       IN /\ dedup' = dedup \cup {id}
          /\ pisnew' = [pisnew EXCEPT ![p] = is_new]
          /\ firstCall' = [firstCall EXCEPT ![id] =
                             IF @ = "none" THEN (IF is_new THEN "new" ELSE "dup") ELSE @]
          /\ laterNew' = [laterNew EXCEPT ![id] = @ \/ (firstCall[id] # "none" /\ is_new)]
    /\ ppc' = [ppc EXCEPT ![p] = "hlen"]
    /\ UNCHANGED <<queue, qcounter, dedupTTL, bp, cache, events, pgVars,
                   porders, pidx, pnew, pstats, pcalls, pret, pghost,
                   workerVars, operatorVars, pushed, resets, everStaged,
                   bpHist, totalPushed, ops>>
    /\ UNCHANGED <<extVars, wctlVars, popped>>

\* mark_seen: if hlen(window) == 1: expire(...) else return bool(is_new)
MarkSeenHlen(p) ==
    /\ ppc[p] = "hlen"
    /\ IF Cardinality(dedup) = 1
       THEN /\ ppc' = [ppc EXCEPT ![p] = "expire"]
            /\ UNCHANGED <<pnew, pstats, pidx, pret, pcalls>>
       ELSE AfterMarkSeen(p, pisnew[p])
    /\ UNCHANGED <<redisVars, pgVars, porders, pisnew, pghost, workerVars,
                   operatorVars, histVars>>
    /\ UNCHANGED <<extVars, wctlVars, popped>>

\* mark_seen: expire(window, ttl_seconds); EXPIRE does nothing on a missing key
MarkSeenExpire(p) ==
    /\ ppc[p] = "expire"
    /\ dedupTTL' = (dedup # {})
    /\ ttlMoved' = (ttlMoved \/ (dedup # {} /\ dedupTTL))
    /\ AfterMarkSeen(p, pisnew[p])
    /\ UNCHANGED <<queue, qcounter, dedup, bp, cache, events, pgVars, porders,
                   pisnew, pghost, workerVars, operatorVars, histVars>>
    /\ UNCHANGED <<loaderVars, consumerVars, clr, retryVars, wctlVars, popped>>

\* RedisQueue.push_batch: LPUSH and INCRBY in one MULTI/EXEC
push_batch_list_bad(list, jobs) == lpush(list, <<json_dumps(jobs[1])>>)
push_batch_list(list, jobs) ==
    lpush(list, [i \in 1..Len(jobs) |-> json_dumps(jobs[i])])

\* the INCRBY of push_batch, queued in the same MULTI/EXEC as the LPUSH
push_batch_counter_bad(k, jobs) == k
push_batch_counter(k, jobs) == incrby(k, Len(jobs))

RECURSIVE CountIn(_, _)
CountIn(s, id) ==
    IF s = <<>> THEN 0
    ELSE (IF Head(s).order_id = id THEN 1 ELSE 0) + CountIn(Tail(s), id)

\* ingestion_queue.push_batch(new_orders); stats['queued'] = len(new_orders)
IngestPushBatch(p) ==
    /\ ppc[p] = "push"
    /\ queue' = push_batch_list(queue, pnew[p])
    /\ qcounter' = push_batch_counter(qcounter, pnew[p])
    /\ pstats' = [pstats EXCEPT ![p].queued = Len(pnew[p])]
    /\ ppc' = [ppc EXCEPT ![p] = "incr"]
    /\ pushed' = [i \in OrderIds |-> pushed[i] + CountIn(pnew[p], i)]
    /\ totalPushed' = totalPushed + Len(pnew[p])
    /\ pghost' = [pghost EXCEPT ![p].pushed = Len(queue') - Len(queue)]
    /\ UNCHANGED <<dedup, dedupTTL, bp, cache, events, pgVars, porders, pidx, pnew,
                   pisnew, pcalls, pret, workerVars, operatorVars, firstCall,
                   laterNew, resets, everStaged, bpHist, ops>>
    /\ UNCHANGED <<extVars, wctlVars, popped>>

\* backpressure.increment('ingestion', len(new_orders)); return stats
IngestIncrement(p) ==
    /\ ppc[p] = "incr"
    /\ bp' = [bp EXCEPT !["ingestion"] = incrby(@, Len(pnew[p]))]
    /\ bpHist' = [bpHist EXCEPT !["ingestion"] = Moved(@, Len(pnew[p]))]
    /\ pghost' = [pghost EXCEPT ![p].bpadd = get_depth(bp'["ingestion"]) - get_depth(bp["ingestion"])]
    /\ IngestReturn(p, pstats[p], FALSE)
    /\ UNCHANGED <<queue, qcounter, dedup, dedupTTL, cache, events, pgVars, porders,
                   pidx, pnew, pstats, pisnew, workerVars, operatorVars, firstCall,
                   laterNew, pushed, resets, everStaged, totalPushed, ops>>
    /\ UNCHANGED <<extVars, wctlVars, popped>>

Producer(p, lists) ==
    \/ \E ids \in lists :
          IngestStart(p, [i \in 1..Len(ids) |-> OrderOf(ids[i])])
    \/ MarkSeenHsetnx(p)
    \/ MarkSeenHlen(p)
    \/ MarkSeenExpire(p)
    \/ IngestPushBatch(p)
    \/ IngestIncrement(p)

----------------------------------------------------------------------------
(* RedisCache and the enrichment of process_batch *)

\* RedisCache.get: hget(cache_name, key), None when the field is missing
cache_get(c, key) == c[key]

\* one row of the enrichment loop: TRUE when the row is appended to
\* enriched_rows, FALSE when it is counted in stats['errors'].
\* float(None) raises, which the except clause counts as an error;
\* all([product_data, currency_rate, zip_data]) is false for a missing value
\* and for a rate of 0.0.
enrich_row_bad(c, row) ==
    LET currency == cache_get(c, "currency:" \o row.currency)
        zip_data == cache_get(c, "zipcode:" \o row.zip_code)
    IN IF ~Exists(currency) THEN FALSE
       ELSE currency[1] # 0 /\ Exists(zip_data)
enrich_row(c, row) ==
    LET product_data == cache_get(c, "product:" \o row.product_id)
        currency == cache_get(c, "currency:" \o row.currency)
        zip_data == cache_get(c, "zipcode:" \o row.zip_code)
    IN IF ~Exists(currency) THEN FALSE
       ELSE Exists(product_data) /\ currency[1] # 0 /\ Exists(zip_data)

RECURSIVE enriched_rows(_, _)
enriched_rows(c, batch) ==
    IF batch = <<>> THEN <<>>
    ELSE (IF enrich_row(c, Head(batch)) THEN <<Head(batch)>> ELSE <<>>)
         \o enriched_rows(c, Tail(batch))

----------------------------------------------------------------------------
(* PipelineOrchestrator.initialize_lookup_cache and the reference tables   *)

\* product_catalog, currency_rates, zip_code_zones, in the order they are read
RefTableNames == <<"product:", "currency:", "zipcode:">>

\* the reference rows a table may hold after a change
RefTableSets == {CacheKeys, CacheKeys \ {"product:P2"}}

\* the value initialize_lookup_cache stores for a reference row
RefValue(k) == IF k = "currency:USD" THEN <<1>> ELSE <<"json">>

\* the keys of the rows "SELECT * FROM <table>" returns, in row order
load_rows(tables, t) ==
    LET keys == {k \in tables : \E i \in 1..Len(k) : SubSeq(k, 1, i) = RefTableNames[t]}
    IN IF "product:P1" \in keys /\ "product:P2" \in keys
       THEN <<"product:P1", "product:P2">>
       ELSE IF keys = {} THEN <<>> ELSE <<CHOOSE k \in keys : TRUE>>

\* RedisCache.set without ttl: hset(cache_name, key, value)
cache_set(c, key, value) == [c EXCEPT ![key] = value]

\* a row of a reference table is deleted or restored (by another client of
\* Postgres), while no preload is running
ReferenceUpdate(keys) ==
    /\ lpc.step = "idle"
    /\ lpre.updates < MaxRefUpdates
    /\ keys # refTables
    /\ refTables' = keys
    /\ lpre' = [lpre EXCEPT !.updates = @ + 1]
    /\ UNCHANGED <<redisVars, pgVars, producerVars, workerVars, operatorVars, histVars,
                   popped, wctlVars, lpc, lrows, lcalls, consumerVars, ttlMoved, clr, retryVars>>

\* with get_postgres_connection() as conn: cache_loader = LookupTableCache(conn)
PreloadStart ==
    /\ lpc.step = "idle"
    /\ lcalls < MaxPreload
    /\ lpc' = [step |-> "load", table |-> 1]
    /\ lpre' = [lpre EXCEPT !.cache = cache, !.tables = refTables]
    /\ UNCHANGED <<redisVars, pgVars, producerVars, workerVars, operatorVars, histVars,
                   popped, wctlVars, refTables, lrows, lcalls, consumerVars, ttlMoved, clr, retryVars>>

\* the step after the rows of table t are all set: the next table, or the
\* end of the with block
PreloadNext(t) ==
    IF t < Len(RefTableNames)
    THEN /\ lpc' = [step |-> "load", table |-> t + 1]
         /\ UNCHANGED lcalls
    ELSE /\ lpc' = [step |-> "idle", table |-> 0]
         /\ lcalls' = lcalls + 1

\* products_df = cache_loader.load_products() (and load_currency_rates,
\* load_zip_codes): one query
PreloadLoad ==
    /\ lpc.step = "load"
    /\ LET rows == load_rows(refTables, lpc.table)
       IN /\ lrows' = rows
          /\ IF rows = <<>>
             THEN PreloadNext(lpc.table)
             ELSE /\ lpc' = [lpc EXCEPT !.step = "set"]
                  /\ UNCHANGED lcalls
    /\ UNCHANGED <<redisVars, pgVars, producerVars, workerVars, operatorVars, histVars,
                   popped, wctlVars, refTables, lpre, consumerVars, ttlMoved, clr, retryVars>>

\* for row in df.iter_rows(named=True): self.lookup_cache.set(key, value)
PreloadSet ==
    /\ lpc.step = "set"
    /\ cache' = cache_set(cache, Head(lrows), RefValue(Head(lrows)))
    /\ lrows' = Tail(lrows)
    /\ IF Tail(lrows) = <<>>
       THEN PreloadNext(lpc.table)
       ELSE UNCHANGED <<lpc, lcalls>>
    /\ UNCHANGED <<queue, qcounter, dedup, dedupTTL, bp, events, pgVars, producerVars,
                   workerVars, operatorVars, histVars, popped, wctlVars, refTables,
                   lpre, consumerVars, ttlMoved, clr, retryVars>>

Preload ==
    \/ PreloadStart
    \/ PreloadLoad
    \/ PreloadSet

----------------------------------------------------------------------------
(* Worker.run and PipelineOrchestrator.process_batch, one worker w *)

\* while self.running: if max_iterations and iterations >= max_iterations: break
\* (max_iterations is 0 for None)
keeps_running_bad(running, max_iterations, iterations) ==
    running /\ iterations < 1
keeps_running(running, max_iterations, iterations) ==
    running /\ ~(max_iterations # 0 /\ iterations >= max_iterations)

\* run(max_iterations): running = True, iterations = 0, first test of the
\* while loop
WorkerRun(w, max_iterations) ==
    /\ wpc[w] = "new"
    /\ wrunning' = [wrunning EXCEPT ![w] = TRUE]
    /\ wmax' = [wmax EXCEPT ![w] = max_iterations]
    /\ UNCHANGED wstopAt
    /\ wpc' = [wpc EXCEPT ![w] =
                 IF keeps_running(TRUE, max_iterations, 0) THEN "pop" ELSE "exited"]
    /\ UNCHANGED <<redisVars, pgVars, producerVars, wbatch, wenriched, wstats, witer,
                   wret, wlost, operatorVars, histVars>>
    /\ UNCHANGED <<extVars, popped>>

\* process_batch returns stats to run(): iterations += 1, test of the while
\* loop.  Without max_iterations the count is never read and is not kept.
BatchReturn(w, stats, outcome) ==
    /\ wret' = [wret EXCEPT ![w] =
                  <<[stats |-> stats, drained |-> wbatch[w], outcome |-> outcome]>>]
    /\ wenriched' = [wenriched EXCEPT ![w] = <<>>]
    /\ witer' = [witer EXCEPT ![w] = IF wmax[w] = 0 THEN @ ELSE @ + 1]
    /\ wpc' = [wpc EXCEPT ![w] =
                 IF keeps_running(wrunning[w], wmax[w], witer[w] + 1)
                 THEN "pop" ELSE "exited"]
    /\ wbatch' = [wbatch EXCEPT ![w] = <<>>]
    /\ wstats' = [wstats EXCEPT ![w] = BatchStats0]

\* RedisQueue.pop: brpop(queue_name, timeout).  The timeout passes only while
\* the list is empty.
WorkerPop(w) ==
    /\ wpc[w] = "pop"
    /\ IF queue # <<>>
       THEN /\ queue' = brpop_rest(queue)
            /\ wbatch' = [wbatch EXCEPT ![w] = Append(@, json_loads(brpop_value(queue)))]
            /\ popped' = [popped EXCEPT ![json_loads(brpop_value(queue)).order_id] = @ + 1]
            /\ wpc' = [wpc EXCEPT ![w] = "decr"]
            /\ UNCHANGED <<wenriched, wstats, witer, wret>>
       ELSE IF wbatch[w] = <<>>
       THEN /\ BatchReturn(w, wstats[w], "empty")
            /\ UNCHANGED <<queue, popped>>
       ELSE /\ wpc' = [wpc EXCEPT ![w] = "bpdec"]
            /\ UNCHANGED <<queue, popped, wbatch, wenriched, wstats, witer, wret>>
    /\ UNCHANGED <<qcounter, dedup, dedupTTL, bp, cache, events, pgVars, producerVars,
                   wlost, operatorVars, histVars>>
    /\ UNCHANGED <<extVars, wctlVars>>

\* RedisQueue.pop: decr(counter_key); back in process_batch the order is
\* appended to orders_batch and stats['processed'] += 1
pop_counter(k) == decrby(k, 1)

\* for _ in range(batch_size): the loop ends after batch_size pops
drain_full_bad(batch, batch_size) == Len(batch) > batch_size
drain_full(batch, batch_size) == Len(batch) >= batch_size

WorkerPopDecr(w) ==
    /\ wpc[w] = "decr"
    /\ qcounter' = pop_counter(qcounter)
    /\ wstats' = [wstats EXCEPT ![w].processed = @ + 1]
    /\ wpc' = [wpc EXCEPT ![w] = IF drain_full(wbatch[w], BatchSize) THEN "bpdec" ELSE "pop"]
    /\ UNCHANGED <<queue, dedup, dedupTTL, bp, cache, events, pgVars, producerVars,
                   wbatch, wenriched, witer, wret, wlost, operatorVars, histVars>>
    /\ UNCHANGED <<extVars, wctlVars, popped>>

\* backpressure.decrement('ingestion', len(orders_batch))
WorkerBpDecrement(w) ==
    /\ wpc[w] = "bpdec"
    /\ bp' = [bp EXCEPT !["ingestion"] = decrby(@, Len(wbatch[w]))]
    /\ bpHist' = [bpHist EXCEPT !["ingestion"] = Moved(@, 0 - Len(wbatch[w]))]
    /\ wpc' = [wpc EXCEPT ![w] = "enrich"]
    /\ UNCHANGED <<queue, qcounter, dedup, dedupTTL, cache, events, pgVars,
                   producerVars, wbatch, wenriched, wstats, witer, wret, wlost,
                   operatorVars, firstCall, laterNew, pushed, resets, everStaged,
                   totalPushed, ops>>
    /\ UNCHANGED <<extVars, wctlVars, popped>>

\* the enrichment loop; if not enriched_rows: return stats
WorkerEnrich(w) ==
    /\ wpc[w] = "enrich"
    /\ LET rows == enriched_rows(cache, wbatch[w])
           stats == [wstats[w] EXCEPT !.enriched = Len(rows),
                                      !.errors = Len(wbatch[w]) - Len(rows)]
       IN /\ IF rows = <<>>
             THEN BatchReturn(w, stats, "none_enriched")
             ELSE /\ wenriched' = [wenriched EXCEPT ![w] = rows]
                  /\ wstats' = [wstats EXCEPT ![w] = stats]
                  /\ wpc' = [wpc EXCEPT ![w] = "connect"]
                  /\ UNCHANGED <<wbatch, witer, wret>>
    /\ UNCHANGED <<redisVars, pgVars, producerVars, wlost, operatorVars, histVars>>
    /\ UNCHANGED <<extVars, wctlVars, popped>>

\* with get_postgres_connection() as conn: psycopg.connect succeeds, or raises
\* outside the try of process_batch and so out of Worker.run
WorkerConnect(w) ==
    /\ wpc[w] = "connect"
    /\ \/ /\ wpc' = [wpc EXCEPT ![w] = "copy"]
          /\ UNCHANGED wlost
       \/ /\ wpc' = [wpc EXCEPT ![w] = "crashed"]
          /\ wlost' = [wlost EXCEPT ![w] = wbatch[w]]
    /\ UNCHANGED <<redisVars, pgVars, producerVars, wbatch, wenriched, wstats, witer,
                   wret, operatorVars, histVars>>
    /\ UNCHANGED <<extVars, wctlVars, popped>>

\* the rows a committed COPY adds to orders_staging
NewRows(rows) ==
    {[id |-> Cardinality(everStaged) + i, order_id |-> rows[i].order_id] :
        i \in 1..Len(rows)}

\* stats after except Exception: stats['errors'] += len(enriched_rows)
staging_error(stats, n) == [stats EXCEPT !.errors = @ + n]

\* StagingTable.bulk_insert: COPY and commit, or an exception (nothing is
\* committed: the connection is closed without a commit)
WorkerBulkInsert(w) ==
    /\ wpc[w] = "copy"
    /\ \/ /\ staging' = staging \cup NewRows(wenriched[w])
          /\ everStaged' = everStaged \cup NewRows(wenriched[w])
          /\ wstats' = [wstats EXCEPT ![w].staged = Len(wenriched[w])]
          /\ wpc' = [wpc EXCEPT ![w] = "publish"]
          /\ UNCHANGED <<wbatch, wenriched, witer, wret>>
       \/ /\ BatchReturn(w, staging_error(wstats[w], Len(wenriched[w])), "copy_failed")
          /\ UNCHANGED <<staging, everStaged>>
    /\ UNCHANGED <<redisVars, durable, views, refreshes, producerVars, wlost,
                   operatorVars, firstCall, laterNew, pushed, resets, bpHist,
                   totalPushed, ops>>
    /\ UNCHANGED <<extVars, wctlVars, popped>>

\* pubsub.publish('pipeline:events', batch_staged), inside the same try
WorkerPublish(w) ==
    /\ wpc[w] = "publish"
    /\ \/ /\ events' = Append(events, [event |-> "batch_staged", count |-> wstats[w].staged])
          /\ BatchReturn(w, wstats[w], "staged")
       \/ /\ BatchReturn(w, staging_error(wstats[w], Len(wenriched[w])), "publish_failed")
          /\ UNCHANGED events
    /\ UNCHANGED <<queue, qcounter, dedup, dedupTTL, bp, cache, pgVars, producerVars,
                   wlost, operatorVars, histVars>>
    /\ UNCHANGED <<extVars, wctlVars, popped>>

\* Worker.stop(), called from another thread while run() is looping:
\* running = False, then cleanup() closes the Redis client the loop is using.
\* A BRPOP that is blocked on the closed connection either goes on (the
\* client reconnects) or raises, out of process_batch and out of run().
WorkerStop(w) ==
    /\ wpc[w] \notin {"new", "exited", "crashed"}
    /\ wstopAt[w] = "none"
    /\ wrunning' = [wrunning EXCEPT ![w] = FALSE]
    /\ wstopAt' = [wstopAt EXCEPT ![w] = wpc[w]]
    /\ \/ UNCHANGED <<wpc, wlost>>
       \/ /\ wpc[w] = "pop"
          /\ queue = <<>>
          /\ wpc' = [wpc EXCEPT ![w] = "crashed"]
          /\ wlost' = [wlost EXCEPT ![w] = wbatch[w]]
    /\ UNCHANGED <<redisVars, pgVars, producerVars, wbatch, wenriched, wstats, witer,
                   wret, operatorVars, histVars, popped, wmax, extVars>>

\* a worker started with run(), max_iterations = None
WorkerForever(w) ==
    \/ WorkerRun(w, 0)
    \/ WorkerPop(w)
    \/ WorkerPopDecr(w)
    \/ WorkerBpDecrement(w)
    \/ WorkerEnrich(w)
    \/ WorkerConnect(w)
    \/ WorkerBulkInsert(w)
    \/ WorkerPublish(w)

Worker(w) ==
    \/ WorkerRun(w, MaxIterations)
    \/ WorkerPop(w)
    \/ WorkerPopDecr(w)
    \/ WorkerBpDecrement(w)
    \/ WorkerEnrich(w)
    \/ WorkerConnect(w)
    \/ WorkerBulkInsert(w)
    \/ WorkerPublish(w)

----------------------------------------------------------------------------
(* PipelineOrchestrator.promote_to_production, run by the operator.        *)
(* The connection is opened with autocommit=False: fetchone() leaves the    *)
(* transaction of the stored procedure open, the commit of execute() in     *)
(* refresh_all() ends it, and close() without a commit rolls it back.       *)

RECURSIVE CountEvents(_, _)
CountEvents(evs, kind) ==
    IF evs = <<>> THEN 0
    ELSE (IF Head(evs).event = kind THEN 1 ELSE 0) + CountEvents(Tail(evs), kind)

\* promote_staging_to_production(): one server-side operation that moves the
\* rows of orders_staging to orders and reports how many it moved
promote_staging_bad(stg) ==
    [inserted |-> stg, deleted |-> {}, inserted_count |-> Cardinality(stg)]
promote_staging_to_production(stg) ==
    [inserted |-> stg, deleted |-> stg, inserted_count |-> Cardinality(stg)]

\* if promoted_count > 0:
needs_refresh_more(promoted_count) == promoted_count > 1
needs_refresh_always(promoted_count) == promoted_count >= 0
needs_refresh(promoted_count) == promoted_count > 0

PromoteRaise(step) ==
    /\ oret' = <<[raised |-> TRUE, step |-> step, count |-> 0, tx |-> otx, pre |-> opre']>>
    /\ ocalls' = ocalls + 1
    /\ opc' = "idle"
    /\ otx' = [inserted |-> {}, deleted |-> {}, inserted_count |-> 0]

PromoteReturn(count, tx) ==
    /\ oret' = <<[raised |-> FALSE, step |-> "return", count |-> count, tx |-> tx,
                  pre |-> opre']>>
    /\ ocalls' = ocalls + 1
    /\ opc' = "idle"
    /\ otx' = [inserted |-> {}, deleted |-> {}, inserted_count |-> 0]

\* with get_postgres_connection() as conn:
PromoteConnect ==
    /\ opc = "idle"
    /\ ocalls < MaxPromote
    /\ opre' = [staging |-> staging, durable |-> durable, views |-> views,
                refreshes |-> refreshes,
                promoted |-> CountEvents(events, "batch_promoted"),
                snap |-> everStaged]
    /\ \/ /\ opc' = "proc"
          /\ UNCHANGED <<otx, ocalls, oret>>
       \/ /\ oret' = <<[raised |-> TRUE, step |-> "connect", count |-> 0, tx |-> otx,
                        pre |-> opre']>>
          /\ ocalls' = ocalls + 1
          /\ UNCHANGED <<opc, otx>>
    /\ UNCHANGED <<redisVars, pgVars, producerVars, workerVars, histVars>>
    /\ UNCHANGED <<extVars, wctlVars, popped>>

\* promoted_count = staging.promote_to_production(): fetchone(), no commit;
\* with promoted_count == 0 the call returns and close() ends the transaction
PromoteProc ==
    /\ opc = "proc"
    /\ opre' = [opre EXCEPT !.snap = everStaged]
    /\ \/ LET tx == promote_staging_to_production(staging)
          IN IF needs_refresh(tx.inserted_count)
             THEN /\ otx' = tx
                  /\ opc' = "refresh"
                  /\ UNCHANGED <<ocalls, oret>>
             ELSE PromoteReturn(tx.inserted_count, tx)
       \/ PromoteRaise("proc")
    /\ UNCHANGED <<redisVars, pgVars, producerVars, workerVars, histVars>>
    /\ UNCHANGED <<extVars, wctlVars, popped>>

\* mv_manager.refresh_all(): execute() runs the refresh inside the open
\* transaction and commits it; when the refresh raises nothing is committed
PromoteRefresh ==
    /\ opc = "refresh"
    /\ UNCHANGED opre
    /\ \/ /\ staging' = staging \ otx.deleted
          /\ durable' = durable \cup otx.inserted
          /\ views' = durable \cup otx.inserted
          /\ refreshes' = refreshes + 1
          /\ opc' = "publish"
          /\ UNCHANGED <<otx, ocalls, oret>>
       \/ /\ PromoteRaise("refresh")
          /\ UNCHANGED pgVars
    /\ UNCHANGED <<redisVars, producerVars, workerVars, histVars>>
    /\ UNCHANGED <<extVars, wctlVars, popped>>

\* pubsub.publish('pipeline:events', batch_promoted); return promoted_count
PromotePublish ==
    /\ opc = "publish"
    /\ UNCHANGED opre
    /\ \/ /\ events' = Append(events, [event |-> "batch_promoted",
                                       count |-> otx.inserted_count])
          /\ PromoteReturn(otx.inserted_count, otx)
       \/ /\ PromoteRaise("publish")
          /\ UNCHANGED events
    /\ UNCHANGED <<queue, qcounter, dedup, dedupTTL, bp, cache, pgVars, producerVars,
                   workerVars, histVars>>
    /\ UNCHANGED <<extVars, wctlVars, popped>>

Operator ==
    \/ PromoteConnect
    \/ PromoteProc
    \/ PromoteRefresh
    \/ PromotePublish

----------------------------------------------------------------------------
(* The clear command of the CLI: with --all or --queues the two queues are *)
(* cleared, with --all or --cache the lookup cache, with --all or --dedup  *)
(* the dedup window; each clear() is one DEL.                              *)

\* the flags <<all, queues, cache, dedup>> the command is run with
ClearFlags == {<<TRUE, FALSE, FALSE, FALSE>>, <<FALSE, TRUE, FALSE, FALSE>>,
               <<FALSE, FALSE, TRUE, TRUE>>, <<FALSE, FALSE, FALSE, FALSE>>}

\* orchestrator = PipelineOrchestrator()
ClearStart(clear_all, queues, cachef, dedupf) ==
    /\ clr.step = "idle"
    /\ clr.calls < MaxClear
    /\ clr' = [step |-> "queues", all |-> clear_all, queues |-> queues,
               cache |-> cachef, dedup |-> dedupf, calls |-> clr.calls]
    /\ UNCHANGED <<redisVars, pgVars, producerVars, workerVars, operatorVars, histVars,
                   popped, wctlVars, loaderVars, consumerVars, ttlMoved, retryVars>>

\* if clear_all or queues: ingestion_queue.clear(); processing_queue.clear().
\* RedisQueue.clear is delete(queue_name, counter_key)
ClearQueues ==
    /\ clr.step = "queues"
    /\ IF clr.all \/ clr.queues
       THEN /\ queue' = <<>>
            /\ qcounter' = Absent
       ELSE UNCHANGED <<queue, qcounter>>
    /\ clr' = [clr EXCEPT !.step = "cache"]
    /\ UNCHANGED <<dedup, dedupTTL, bp, cache, events, pgVars, producerVars,
                   workerVars, operatorVars, histVars, popped, wctlVars, loaderVars,
                   consumerVars, ttlMoved, retryVars>>

\* if clear_all or cache: lookup_cache.clear(), delete(cache_name)
ClearCache ==
    /\ clr.step = "cache"
    /\ IF clr.all \/ clr.cache
       THEN cache' = [k \in CacheKeys |-> Absent]
       ELSE UNCHANGED cache
    /\ clr' = [clr EXCEPT !.step = "dedup"]
    /\ UNCHANGED <<queue, qcounter, dedup, dedupTTL, bp, events, pgVars, producerVars,
                   workerVars, operatorVars, histVars, popped, wctlVars, loaderVars,
                   consumerVars, ttlMoved, retryVars>>

\* if clear_all or dedup: deduplicator.clear(), delete(window_name); then
\* the command ends
ClearDedup ==
    /\ clr.step = "dedup"
    /\ IF clr.all \/ clr.dedup
       THEN /\ dedup' = {}
            /\ dedupTTL' = FALSE
            /\ ttlMoved' = FALSE
       ELSE UNCHANGED <<dedup, dedupTTL, ttlMoved>>
    /\ clr' = ClearIdle(clr.calls + 1)
    /\ UNCHANGED <<queue, qcounter, bp, cache, events, pgVars, producerVars,
                   workerVars, operatorVars, histVars, popped, wctlVars, loaderVars,
                   consumerVars, retryVars>>

Clear ==
    \/ \E f \in ClearFlags : ClearStart(f[1], f[2], f[3], f[4])
    \/ ClearQueues
    \/ ClearCache
    \/ ClearDedup

----------------------------------------------------------------------------
(* RedisBackpressure used on its own: any sequence of increment, decrement *)
(* and reset on the named queues                                           *)

BpIncrement(q, amount) ==
    /\ ops < MaxOps
    /\ bp' = [bp EXCEPT ![q] = incrby(@, amount)]
    /\ bpHist' = [bpHist EXCEPT ![q] = Moved(@, amount)]
    /\ ops' = ops + 1
    /\ UNCHANGED <<queue, qcounter, dedup, dedupTTL, cache, events, pgVars,
                   producerVars, workerVars, operatorVars, firstCall, laterNew,
                   pushed, resets, everStaged, totalPushed>>
    /\ UNCHANGED <<extVars, wctlVars, popped>>

BpDecrement(q, amount) ==
    /\ ops < MaxOps
    /\ bp' = [bp EXCEPT ![q] = decrby(@, amount)]
    /\ bpHist' = [bpHist EXCEPT ![q] = Moved(@, 0 - amount)]
    /\ ops' = ops + 1
    /\ UNCHANGED <<queue, qcounter, dedup, dedupTTL, cache, events, pgVars,
                   producerVars, workerVars, operatorVars, firstCall, laterNew,
                   pushed, resets, everStaged, totalPushed>>
    /\ UNCHANGED <<extVars, wctlVars, popped>>

\* reset: delete(key)
BpReset(q) ==
    /\ ops < MaxOps
    /\ bp' = [bp EXCEPT ![q] = Absent]
    /\ bpHist' = [bpHist EXCEPT ![q] = [net |-> 0, peak |-> 0]]
    /\ ops' = ops + 1
    /\ UNCHANGED <<queue, qcounter, dedup, dedupTTL, cache, events, pgVars,
                   producerVars, workerVars, operatorVars, firstCall, laterNew,
                   pushed, resets, everStaged, totalPushed>>
    /\ UNCHANGED <<extVars, wctlVars, popped>>

----------------------------------------------------------------------------
(* RedisQueue used on its own by one client: any sequence of push,         *)
(* push_batch and pop on orders:ingestion                                  *)

\* RedisQueue.counter: int(value) if value else 0
counter(k) == IF Exists(k) THEN k[1] ELSE 0

\* push: lpush(queue_name, json.dumps(job_data)); incr(counter_key)
QueuePush(job) ==
    /\ ops < MaxOps
    /\ queue' = lpush(queue, <<json_dumps(job)>>)
    /\ qcounter' = incrby(qcounter, 1)
    /\ totalPushed' = totalPushed + 1
    /\ ops' = ops + 1
    /\ UNCHANGED <<dedup, dedupTTL, bp, cache, events, pgVars, producerVars,
                   workerVars, operatorVars, firstCall, laterNew, pushed, resets,
                   everStaged, bpHist>>
    /\ UNCHANGED <<extVars, wctlVars, popped>>

\* push_batch: nothing for an empty list, else LPUSH and INCRBY in one MULTI/EXEC
QueuePushBatch(jobs) ==
    /\ ops < MaxOps
    /\ IF jobs = <<>>
       THEN UNCHANGED <<queue, qcounter>>
       ELSE /\ queue' = push_batch_list(queue, jobs)
            /\ qcounter' = push_batch_counter(qcounter, jobs)
    /\ totalPushed' = totalPushed + Len(jobs)
    /\ ops' = ops + 1
    /\ UNCHANGED <<dedup, dedupTTL, bp, cache, events, pgVars, producerVars,
                   workerVars, operatorVars, firstCall, laterNew, pushed, resets,
                   everStaged, bpHist>>
    /\ UNCHANGED <<extVars, wctlVars, popped>>

\* pop: brpop; if result: decr(counter_key) and the job is returned, else None
QueuePop ==
    /\ ops < MaxOps
    /\ IF queue # <<>>
       THEN /\ queue' = brpop_rest(queue)
            /\ qcounter' = pop_counter(qcounter)
       ELSE UNCHANGED <<queue, qcounter>>
    /\ ops' = ops + 1
    /\ UNCHANGED <<dedup, dedupTTL, bp, cache, events, pgVars, producerVars,
                   workerVars, operatorVars, firstCall, laterNew, pushed, resets,
                   everStaged, bpHist, totalPushed>>
    /\ UNCHANGED <<extVars, wctlVars, popped>>

----------------------------------------------------------------------------
(* EventConsumer of python-redis-streaming: consume(), should_flush_batch  *)
(* and process_batch of one consumer                                       *)

\* should_flush_batch
should_flush_batch_bad(len, last_batch_time, now) ==
    IF len > ConsumerBatchSize THEN TRUE
    ELSE IF now - last_batch_time >= ConsumerBatchTimeout THEN TRUE
    ELSE FALSE
should_flush_batch(len, last_batch_time, now) ==
    IF len >= ConsumerBatchSize THEN TRUE
    ELSE IF now - last_batch_time >= ConsumerBatchTimeout THEN TRUE
    ELSE FALSE

\* process_batch: processed_count += len(batch) at the end of the try,
\* error_count += len(batch) in the except
batch_counts_bad(processed, errors, n, ok) ==
    [processed |-> processed + n, errors |-> IF ok THEN errors ELSE errors + n]
batch_counts(processed, errors, n, ok) ==
    IF ok THEN [processed |-> processed + n, errors |-> errors]
    ELSE [processed |-> processed, errors |-> errors + n]

\* the clock advances
ConsumerTick ==
    /\ cnow < MaxTime
    /\ cnow' = cnow + 1
    /\ UNCHANGED <<redisVars, pgVars, producerVars, workerVars, operatorVars, histVars,
                   popped, wctlVars, ttlMoved, clr, retryVars, loaderVars, cpc, cbatch, clast, cread,
                   cprocessed, cerrors, cflush, chanded, ccall, cstore>>

\* events = await self.read_events(); self.batch.extend(events): XREADGROUP
\* delivers up to xread_count new events, none on a timeout or an error
ConsumerRead(n) ==
    /\ cpc = "read"
    /\ cread + n <= MaxEvents
    /\ cbatch' = cbatch \o [i \in 1..n |-> cread + i]
    /\ cread' = cread + n
    /\ cpc' = "check"
    /\ UNCHANGED <<redisVars, pgVars, producerVars, workerVars, operatorVars, histVars,
                   popped, wctlVars, ttlMoved, clr, retryVars, loaderVars, clast, cnow, cprocessed, cerrors,
                   cflush, chanded, ccall, cstore>>

\* if await self.should_flush_batch():
ConsumerCheck ==
    /\ cpc = "check"
    /\ LET flush == should_flush_batch(Len(cbatch), clast, cnow)
       IN /\ cflush' = <<[len |-> Len(cbatch), elapsed |-> cnow - clast,
                          result |-> flush]>>
          /\ cpc' = IF flush THEN "process" ELSE "read"
    /\ UNCHANGED <<redisVars, pgVars, producerVars, workerVars, operatorVars, histVars,
                   popped, wctlVars, ttlMoved, clr, retryVars, loaderVars, cbatch, clast, cnow, cread,
                   cprocessed, cerrors, chanded, ccall, cstore>>

\* what consume() does after process_batch returned: the next read, or break
\* when the call was the one of the CancelledError handler
AfterProcess == IF cpc = "final" THEN "stopped" ELSE "read"

\* the events table, the acknowledgements and the dead-letter stream after
\* process_batch handled the events ids: conn.executemany inserted them all
\* or raised; the pipeline of XACKs ran only after the insert and was executed
\* or raised; send_to_dlq ran when either raised, and its pipeline of XADDs
\* was executed or raised (send_to_dlq catches that)
store_after(store, ids, inserted, acked, dlq) ==
    [inserted |-> IF inserted THEN store.inserted \cup ids ELSE store.inserted,
     acked |-> IF inserted /\ acked THEN store.acked \cup ids ELSE store.acked,
     dlq |-> IF ~(inserted /\ acked) /\ dlq THEN store.dlq \cup ids ELSE store.dlq]

\* await self.process_batch(): nothing for an empty batch; else the insert
\* and the acknowledgements succeed, or an exception is caught and the batch
\* goes to the dead letter queue; finally the batch is cleared.  A
\* CancelledError raised inside the call (at the insert or at the
\* acknowledgements, which may or may not have taken effect) is not caught by
\* except Exception: the finally clause runs and consume() stops.
ConsumerProcess ==
    /\ cpc \in {"process", "final"}
    /\ IF cbatch = <<>>
       THEN /\ ccall' = <<[given |-> 0, outcome |-> "empty",
                           processed0 |-> cprocessed, errors0 |-> cerrors,
                           left |-> Len(cbatch)]>>
            /\ cpc' = AfterProcess
            /\ UNCHANGED <<cbatch, clast, cprocessed, cerrors, chanded, cstore>>
       ELSE /\ cbatch' = <<>>
            /\ clast' = cnow
            /\ \/ \E inserted, acked, dlq \in BOOLEAN :
                     LET ok == inserted /\ acked
                         counts == batch_counts(cprocessed, cerrors, Len(cbatch), ok)
                     IN /\ (~inserted => ~acked)
                        /\ (ok => ~dlq)
                        /\ cstore' = store_after(cstore, Range(cbatch), inserted, acked, dlq)
                        /\ cprocessed' = counts.processed
                        /\ cerrors' = counts.errors
                        /\ chanded' = chanded + Len(cbatch)
                        /\ ccall' = <<[given |-> Len(cbatch),
                                       outcome |-> IF ok THEN "success" ELSE "failed",
                                       processed0 |-> cprocessed, errors0 |-> cerrors,
                                       left |-> Len(cbatch')]>>
                        /\ cpc' = AfterProcess
               \/ \E inserted, acked \in BOOLEAN :
                     /\ (~inserted => ~acked)
                     /\ cstore' = store_after(cstore, Range(cbatch), inserted, acked, FALSE)
                     /\ ccall' = <<[given |-> Len(cbatch), outcome |-> "cancelled",
                                    processed0 |-> cprocessed, errors0 |-> cerrors,
                                    left |-> Len(cbatch')]>>
                     /\ cpc' = "stopped"
                     /\ UNCHANGED <<cprocessed, cerrors, chanded>>
    /\ UNCHANGED <<redisVars, pgVars, producerVars, workerVars, operatorVars, histVars,
                   popped, wctlVars, ttlMoved, clr, retryVars, loaderVars, cnow, cread, cflush>>

\* task.cancel() while consume() waits in read_events: except
\* asyncio.CancelledError: if self.batch: await self.process_batch(); break
ConsumerCancel ==
    /\ cpc = "read"
    /\ cpc' = IF cbatch # <<>> THEN "final" ELSE "stopped"
    /\ UNCHANGED <<redisVars, pgVars, producerVars, workerVars, operatorVars, histVars,
                   popped, wctlVars, ttlMoved, clr, retryVars, loaderVars, cbatch, clast, cnow, cread,
                   cprocessed, cerrors, cflush, chanded, ccall, cstore>>

Consumer ==
    \/ ConsumerTick
    \/ \E n \in 0..XreadCount : ConsumerRead(n)
    \/ ConsumerCheck
    \/ ConsumerProcess
    \/ ConsumerCancel

----------------------------------------------------------------------------
(* IngestionWorker of read-from-everywhere-platform: retries and dead letters *)

\* the runs whose source fails at every attempt
AlwaysFailing == {1}

\* IngestionJob.next_attempt
next_attempt(job) == [run_id |-> job.run_id, attempt |-> job.attempt + 1]

\* the delay _handle_failure computes for a failed attempt
backoff_delay(attempt) ==
    LET grown == BackoffBaseSeconds * (2 ^ (attempt - 1))
    IN IF BackoffCapSeconds < grown THEN BackoffCapSeconds ELSE grown

\* the test _handle_failure makes before it gives a job up
attempts_exhausted(job) == job.attempt >= MaxJobAttempts

\* Scheduler._emit_cycle: RPUSH of a new job, attempt 1, under a fresh run_id
JobEnqueue(r) ==
    /\ r \notin jstore.enqueued
    /\ jq' = Append(jq, [run_id |-> r, attempt |-> 1])
    /\ jstore' = [jstore EXCEPT !.enqueued = @ \cup {r}]
    /\ UNCHANGED <<jpc, jjob, jtasks, jnow>>

\* _consume_loop: BLPOP returned a job
JobPop ==
    /\ jpc = "blpop"
    /\ jq # <<>>
    /\ jjob' = Head(jq)
    /\ jq' = Tail(jq)
    /\ jpc' = "handle"
    /\ UNCHANGED <<jtasks, jnow, jstore>>

\* _handle_job: the body of the try either reaches record_success or raises
JobHandle(ok) ==
    /\ jpc = "handle"
    /\ (jjob.run_id \in AlwaysFailing => ~ok)
    /\ jstore' = [jstore EXCEPT !.calls[jjob.run_id] = @ + 1,
                                !.succeeded = IF ok THEN @ \cup {jjob.run_id} ELSE @]
    /\ jpc' = IF ok THEN "blpop" ELSE "failure"
    /\ jjob' = IF ok THEN NoJob ELSE jjob
    /\ UNCHANGED <<jq, jtasks, jnow>>

\* _handle_failure of a job that has used its attempts: record_failure, then
\* write_dead_letter; either may raise, which ends the call (the exception is
\* logged by _consume_loop)
JobGiveUp(recorded, written) ==
    /\ jpc = "failure"
    /\ attempts_exhausted(jjob)
    /\ (written => recorded)
    /\ jstore' = [jstore EXCEPT
           !.failures = IF recorded THEN @ \cup {jjob} ELSE @,
           !.dead[jjob.run_id] = IF written THEN @ + 1 ELSE @,
           !.ended = @ \cup {jjob}]
    /\ jpc' = "blpop"
    /\ jjob' = NoJob
    /\ UNCHANGED <<jq, jtasks, jnow>>

\* _handle_failure of a job with attempts left: _requeue_job starts the task
\* _enqueue_later, which sleeps for the delay
JobRequeue ==
    /\ jpc = "failure"
    /\ ~attempts_exhausted(jjob)
    /\ jtasks' = jtasks \cup {[job |-> jjob, started |-> jnow,
                                due |-> jnow + backoff_delay(jjob.attempt)]}
    /\ jstore' = [jstore EXCEPT !.ended = @ \cup {jjob}]
    /\ jpc' = "blpop"
    /\ jjob' = NoJob
    /\ UNCHANGED <<jq, jnow>>

\* _enqueue_later after its sleep: RPUSH of job.next_attempt(); when the RPUSH
\* raises the task ends with the exception and nothing is pushed
JobEnqueueLater(t, pushed_ok) ==
    /\ t \in jtasks
    /\ t.due <= jnow
    /\ jtasks' = jtasks \ {t}
    /\ IF pushed_ok
       THEN /\ jq' = Append(jq, next_attempt(t.job))
            /\ jstore' = [jstore EXCEPT
                   !.pushes = @ \cup {[job |-> next_attempt(t.job),
                                        waited |-> jnow - t.started]},
                   !.copies[t.job.run_id] = @ + 1]
       ELSE UNCHANGED <<jq, jstore>>
    /\ UNCHANGED <<jpc, jjob, jnow>>

\* a second passes while every task still sleeps
JobTick ==
    /\ jtasks # {}
    /\ \A t \in jtasks : t.due > jnow
    /\ jnow' = jnow + 1
    /\ UNCHANGED <<jq, jpc, jjob, jtasks, jstore>>

JobOthers ==
    UNCHANGED <<redisVars, pgVars, producerVars, workerVars, operatorVars, histVars,
                popped, wctlVars, loaderVars, consumerVars, ttlMoved, clr>>

\* the steps of the ingestion worker's consume loop
JobWorker ==
    /\ \/ JobPop
       \/ \E ok \in BOOLEAN : JobHandle(ok)
       \/ \E recorded, written \in BOOLEAN : JobGiveUp(recorded, written)
       \/ JobRequeue
    /\ JobOthers

\* the steps of the _enqueue_later tasks
JobTimers ==
    /\ \E t \in jtasks : \E pushed_ok \in BOOLEAN : JobEnqueueLater(t, pushed_ok)
    /\ JobOthers

JobClock == JobTick /\ JobOthers

JobScheduler == (\E r \in 1..MaxRuns : JobEnqueue(r)) /\ JobOthers

----------------------------------------------------------------------------
(* Specifications *)

\* one producer, the workers and the operator
Next ==
    \/ Producer("p1", OrderLists)
    \/ Worker("w1")
    \/ Operator

Spec == Init /\ [][Next]_vars

\* concurrent producers, with the expiry of the dedup window
InitOneCache == Init /\ cache = CacheOf({}, 1)

NextIngest ==
    \/ \E p \in Producers : Producer(p, SharedLists)
    \/ DedupExpire

SpecIngest == InitOneCache /\ [][NextIngest]_vars

\* one producer and two workers on the same ingestion queue
NextWorkers ==
    \/ Producer("p1", QueueLists)
    \/ \E w \in Workers : Worker(w)

SpecWorkers == InitOneCache /\ [][NextWorkers]_vars

\* one producer and a worker that runs without max_iterations and is always
\* scheduled again
NextForever ==
    \/ Producer("p1", OrderLists)
    \/ WorkerForever("w1")

SpecForever == Init /\ [][NextForever]_vars /\ WF_vars(WorkerForever("w1"))

\* one producer, a worker without max_iterations and a thread that calls
\* its stop()
NextStop ==
    \/ Producer("p1", OrderLists)
    \/ WorkerForever("w1")
    \/ WorkerStop("w1")

SpecStop == Init /\ [][NextStop]_vars

\* one producer and one worker, over every lookup cache
NextBatch ==
    \/ Producer("p1", OrderLists)
    \/ Worker("w1")

SpecBatch == Init /\ [][NextBatch]_vars

\* initialize_lookup_cache run while a producer and a worker are active and
\* the reference tables change
NextCache ==
    \/ Preload
    \/ \E keys \in RefTableSets : ReferenceUpdate(keys)
    \/ Producer("p1", QueueLists)
    \/ Worker("w1")

SpecCache == Init /\ [][NextCache]_vars

\* one EventConsumer task
NextConsumer == Consumer

SpecConsumer == InitOneCache /\ [][NextConsumer]_vars

\* the state after producer p2 has completed ingest_orders with
\* max_queue_depth new orders on the empty pipeline: the queue is full
InitQueued ==
    LET n == MaxQueueDepth
        jobs == [i \in 1..n |-> OrderOf(i)]
        stats == [total |-> n, new |-> n, duplicates |-> 0, queued |-> n]
    IN /\ queue = push_batch_list(<<>>, jobs)
       /\ qcounter = push_batch_counter(Absent, jobs)
       /\ dedup = 1..n
       /\ dedupTTL = TRUE
       /\ bp = [q \in BpQueues |-> IF q = "ingestion" THEN incrby(Absent, n) ELSE Absent]
       /\ cache = CacheOf({}, 1)
       /\ events = <<>>
       /\ staging = {}
       /\ durable = {}
       /\ views = {}
       /\ refreshes = 0
       /\ ppc = [p \in Producers |-> "idle"]
       /\ porders = [p \in Producers |-> IF p = "p2" THEN jobs ELSE <<>>]
       /\ pidx = [p \in Producers |-> IF p = "p2" THEN n + 1 ELSE 1]
       /\ pnew = [p \in Producers |-> IF p = "p2" THEN jobs ELSE <<>>]
       /\ pstats = [p \in Producers |-> IF p = "p2" THEN stats ELSE IngestStats0(0)]
       /\ pisnew = [p \in Producers |-> p = "p2"]
       /\ pcalls = [p \in Producers |-> IF p = "p2" THEN 1 ELSE 0]
       /\ pret = [p \in Producers |->
                    IF p = "p2" THEN <<[stats |-> stats, n |-> n, throttled |-> FALSE]>>
                    ELSE <<>>]
       /\ pghost = [p \in Producers |->
                      IF p = "p2" THEN [depth0 |-> 0, pushed |-> n, bpadd |-> n]
                      ELSE [depth0 |-> 0, pushed |-> 0, bpadd |-> 0]]
       /\ wpc = [w \in Workers |-> "new"]
       /\ wbatch = [w \in Workers |-> <<>>]
       /\ wenriched = [w \in Workers |-> <<>>]
       /\ wstats = [w \in Workers |-> BatchStats0]
       /\ witer = [w \in Workers |-> 0]
       /\ wret = [w \in Workers |-> <<>>]
       /\ wlost = [w \in Workers |-> <<>>]
       /\ opc = "idle"
       /\ otx = [inserted |-> {}, deleted |-> {}, inserted_count |-> 0]
       /\ ocalls = 0
       /\ oret = <<>>
       /\ opre = [staging |-> {}, durable |-> {}, views |-> {}, refreshes |-> 0,
                  promoted |-> 0, snap |-> {}]
       /\ firstCall = [i \in OrderIds |-> IF i <= n THEN "new" ELSE "none"]
       /\ laterNew = [i \in OrderIds |-> FALSE]
       /\ pushed = [i \in OrderIds |-> IF i <= n THEN 1 ELSE 0]
       /\ resets = 0
       /\ everStaged = {}
       /\ bpHist = [q \in BpQueues |->
                      IF q = "ingestion" THEN [net |-> n, peak |-> n]
                      ELSE [net |-> 0, peak |-> 0]]
       /\ totalPushed = n
       /\ ops = 0
       /\ popped = [i \in OrderIds |-> 0]
       /\ ttlMoved = FALSE
       /\ jq = <<>>
       /\ jpc = "blpop"
       /\ jjob = NoJob
       /\ jtasks = {}
       /\ jnow = 0
       /\ jstore = JobStore0
       /\ clr = ClearIdle(0)
       /\ wrunning = [w \in Workers |-> FALSE]
       /\ wmax = [w \in Workers |-> 0]
       /\ wstopAt = [w \in Workers |-> "none"]
       /\ refTables = CacheKeys
       /\ lpc = [step |-> "idle", table |-> 0]
       /\ lrows = <<>>
       /\ lcalls = 0
       /\ lpre = [cache |-> cache, tables |-> CacheKeys, updates |-> 0]
       /\ cpc = "read"
       /\ cbatch = <<>>
       /\ clast = 0
       /\ cnow = 0
       /\ cread = 0
       /\ cprocessed = 0
       /\ cerrors = 0
       /\ cflush = <<>>
       /\ chanded = 0
       /\ ccall = <<>>
       /\ cstore = [inserted |-> {}, acked |-> {}, dlq |-> {}]

\* on a full queue: a producer that submits its rejected orders again, a
\* worker that drains, and the expiry of the dedup window
NextResubmit ==
    \/ Producer("p1", ResubmitLists)
    \/ IngestResubmit("p1")
    \/ Worker("w1")
    \/ DedupExpire

SpecResubmit == InitQueued /\ [][NextResubmit]_vars

\* a producer, a worker and the clear command of the CLI
NextClear ==
    \/ Producer("p1", QueueLists)
    \/ Worker("w1")
    \/ Clear

SpecClear == InitOneCache /\ [][NextClear]_vars

\* RedisDeduplicator: a producer's mark_seen calls, mark_batch calls of
\* another client and the expiry of the window
NextDedup ==
    \/ Producer("p1", SharedLists)
    \/ \E ids \in BatchIdLists : MarkBatch(ids)
    \/ DedupExpire

SpecDedup == InitOneCache /\ [][NextDedup]_vars

\* RedisBackpressure on its own
\* the scheduler, the ingestion worker and its re-enqueue tasks; the consume
\* loop and the event loop's timers keep running
NextRetry ==
    \/ JobScheduler
    \/ JobWorker
    \/ JobTimers
    \/ JobClock

SpecRetry ==
    /\ InitOneCache
    /\ [][NextRetry]_vars
    /\ WF_vars(JobWorker)
    /\ WF_vars(JobTimers)
    /\ WF_vars(JobClock)

NextBackpressure ==
    \E q \in BpQueues :
        \/ \E amount \in 1..MaxAmount : BpIncrement(q, amount)
        \/ \E amount \in 1..MaxAmount : BpDecrement(q, amount)
        \/ BpReset(q)

SpecBackpressure == InitOneCache /\ [][NextBackpressure]_vars

\* RedisQueue on its own
NextQueue ==
    \/ \E i \in OrderIds : QueuePush(OrderOf(i))
    \/ \E ids \in OrderLists :
          QueuePushBatch([i \in 1..Len(ids) |-> OrderOf(ids[i])])
    \/ QueuePop

SpecQueue == InitOneCache /\ [][NextQueue]_vars

----------------------------------------------------------------------------
(* Properties *)

\* C1: while the dedup window has not expired, mark_seen returned True for
\* the first call made with an order_id and False for every later call with
\* it, and no order_id was pushed onto the ingestion queue more than once.
MarkSeenOnce ==
    resets = 0 =>
        \A id \in OrderIds :
            /\ firstCall[id] # "dup"
            /\ ~laterNew[id]
            /\ pushed[id] <= 1

\* two producers submitted the same order: one call counted it as new, the
\* other as a duplicate, and it was pushed once
MarkSeenOnceWitness ==
    /\ resets = 0
    /\ \E id \in OrderIds : \E p, q \in Producers :
          /\ p # q
          /\ ppc[p] = "idle" /\ pret[p] # <<>>
          /\ ppc[q] = "idle" /\ pret[q] # <<>>
          /\ porders[p] = <<OrderOf(id)>>
          /\ porders[q] = <<OrderOf(id)>>
          /\ pret[p][1].stats.new = 1
          /\ pret[q][1].stats.duplicates = 1
          /\ pushed[id] = 1

\* C2: the statistics returned by process_batch satisfy
\* staged + errors == processed == number of records drained.
BatchStatsBalanced ==
    \A w \in Workers :
        wret[w] # <<>> =>
            /\ wret[w][1].stats.processed = Len(wret[w][1].drained)
            /\ wret[w][1].stats.staged + wret[w][1].stats.errors
                   = wret[w][1].stats.processed

\* C3: every row ever staged is in exactly one of orders_staging and orders,
\* and a finished promotion has moved all the rows it found staged or none.
PromotionAtomic ==
    /\ staging \cap durable = {}
    /\ staging \cup durable = everStaged
    /\ (opc = "idle" /\ oret # <<>>) =>
           \/ /\ oret[1].tx.inserted \subseteq durable
              /\ oret[1].tx.deleted \cap staging = {}
              /\ oret[1].tx.inserted = oret[1].tx.deleted
           \/ /\ durable = oret[1].pre.durable
              /\ oret[1].pre.staging \subseteq staging

\* a promotion committed while a bulk insert had added a row after the stored
\* procedure ran: that row stays staged, the others are durable
PromotionAtomicWitness ==
    /\ opc = "publish"
    /\ otx.inserted # {}
    /\ otx.inserted \subseteq durable
    /\ staging # {}

\* C4: a promotion that returns after finding N > 0 rows staged returns N,
\* adds exactly N rows to orders, leaves none of them staged (staging is
\* empty unless a bulk insert committed after the stored procedure ran) and
\* publishes exactly one batch_promoted event, with count N.
PromoteMovesAll ==
    (opc = "idle" /\ oret # <<>> /\ ~oret[1].raised /\ oret[1].tx.deleted # {}) =>
        LET r == oret[1]
            N == Cardinality(r.tx.deleted)
            promoted == SelectSeq(events, LAMBDA e : e.event = "batch_promoted")
        IN /\ r.count = N
           /\ Cardinality(durable) = Cardinality(r.pre.durable) + N
           /\ staging \cap r.tx.deleted = {}
           /\ (everStaged = r.pre.snap => staging = {})
           /\ Len(promoted) = r.pre.promoted + 1
           /\ promoted[Len(promoted)].count = N

PromoteMovesAllWitness ==
    /\ opc = "idle" /\ oret # <<>> /\ ~oret[1].raised
    /\ oret[1].count = 2
    /\ staging = {}
    /\ Cardinality(durable) = 2

\* C5: a promotion that returns 0 found nothing staged, refreshed no view,
\* published no event and left orders_staging and orders as they were; one
\* that returns a non-zero count refreshed the views once and published one
\* batch_promoted event.
PromoteEmptyNoOp ==
    (opc = "idle" /\ oret # <<>> /\ ~oret[1].raised) =>
        LET r == oret[1]
        IN /\ (r.tx.deleted = {}) <=> (r.count = 0)
           /\ IF r.count = 0
              THEN /\ durable = r.pre.durable
                   /\ r.pre.staging \subseteq staging
                   /\ views = r.pre.views
                   /\ refreshes = r.pre.refreshes
                   /\ CountEvents(events, "batch_promoted") = r.pre.promoted
              ELSE /\ refreshes = r.pre.refreshes + 1
                   /\ CountEvents(events, "batch_promoted") = r.pre.promoted + 1

\* the second of two promotions of an empty staging table has returned 0
PromoteEmptyNoOpWitness ==
    /\ opc = "idle" /\ ocalls = 2
    /\ oret # <<>> /\ ~oret[1].raised /\ oret[1].count = 0
    /\ durable = {} /\ refreshes = 0
    /\ CountEvents(events, "batch_promoted") = 0

\* C6: after promote_to_production raised, orders_staging still holds the
\* rows it held, orders is as before the call, the views were not refreshed
\* and no batch_promoted event was published.
PromoteRaiseLeavesState ==
    (opc = "idle" /\ oret # <<>> /\ oret[1].raised) =>
        /\ durable = oret[1].pre.durable
        /\ oret[1].pre.staging \subseteq staging
        /\ views = oret[1].pre.views
        /\ refreshes = oret[1].pre.refreshes
        /\ CountEvents(events, "batch_promoted") = oret[1].pre.promoted

\* C7: a failure to write a batch to staging (opening the connection, or the
\* COPY) does not stop the worker loop; process_batch returns staged == 0 and
\* errors == processed, and the batch's records are not back on the queue.
StagingFailureCounted ==
    \A w \in Workers :
        /\ wpc[w] # "crashed"
        /\ (wret[w] # <<>> /\ wret[w][1].outcome = "copy_failed") =>
               /\ wret[w][1].stats.staged = 0
               /\ wret[w][1].stats.errors = wret[w][1].stats.processed
               /\ \A i \in 1..Len(wret[w][1].drained) :
                      json_dumps(wret[w][1].drained[i]) \notin Range(queue)

\* C8: a call of ingest_orders made while the backpressure depth is at least
\* max_queue_depth returns total == len(orders), new == duplicates == queued
\* == 0 and has pushed nothing onto the ingestion queue.
BackpressureRejects ==
    \A p \in Producers :
        (ppc[p] = "idle" /\ pret[p] # <<>> /\ pghost[p].depth0 >= MaxQueueDepth) =>
            /\ pret[p][1].stats = IngestStats0(Len(porders[p]))
            /\ pghost[p].pushed = 0

BackpressureRejectsWitness ==
    \E p \in Producers :
        /\ ppc[p] = "idle" /\ pret[p] # <<>>
        /\ pghost[p].depth0 >= MaxQueueDepth
        /\ Len(porders[p]) = 2
        /\ pret[p][1].stats.total = 2

\* C9: should_throttle(queue, max_depth) is true exactly when the increments
\* made on the queue since its last reset exceed the decrements by at least
\* max_depth, and get_depth is that difference.
ThrottleMatchesDepth ==
    \A q \in BpQueues :
        /\ get_depth(bp[q]) = bpHist[q].net
        /\ \A m \in 0..(MaxQueueDepth + 1) :
               should_throttle(bp[q], m) <=> (bpHist[q].net >= m)

\* a queue that reached max_depth and was brought below it by a decrement is
\* no longer throttled
ThrottleMatchesDepthWitness ==
    \E q \in BpQueues :
        /\ bpHist[q].peak >= MaxQueueDepth
        /\ bpHist[q].net < MaxQueueDepth
        /\ ~should_throttle(bp[q], MaxQueueDepth)

\* C10: the queue's counter equals the number of jobs ever pushed.
LifetimeCounter == counter(qcounter) = totalPushed

\* C11: push_batch is one atomic step: the step that appends a producer's
\* new orders to the ingestion list appends all of them and adds their number
\* to the counter, no other step makes the list or the counter grow, and in
\* every state the counter equals the length of the list plus the entries a
\* worker has popped and not yet counted down.
PushBatchAtomic ==
    /\ [](counter(qcounter) = Len(queue) + Cardinality({w \in Workers : wpc[w] = "decr"}))
    /\ [][/\ \A p \in Producers :
              (ppc[p] = "push" /\ ppc'[p] = "incr") =>
                  /\ Len(queue') = Len(queue) + Len(pnew[p])
                  /\ \A i \in 1..Len(pnew[p]) : json_dumps(pnew[p][i]) \in Range(queue')
                  /\ counter(qcounter') = counter(qcounter) + Len(pnew[p])
          /\ (Len(queue') > Len(queue) \/ counter(qcounter') > counter(qcounter)) =>
                  \E p \in Producers : ppc[p] = "push" /\ ppc'[p] = "incr"]_vars

\* a worker has popped an entry of a batch of two that the producer has pushed
\* and not yet added to the backpressure counter
PushBatchAtomicWitness ==
    \E p \in Producers : \E w \in Workers :
        /\ ppc[p] = "incr"
        /\ pghost[p].pushed = 2
        /\ wpc[w] = "decr"
        /\ Len(queue) = 1

\* the entries of the ingestion list that carry an order_id
QueueCount(list, id) ==
    Cardinality({i \in 1..Len(list) : json_loads(list[i]).order_id = id})

\* C12: every entry pushed onto the ingestion queue is either still on the
\* list or was popped once, so no entry is in the batches of two workers, and
\* no order is written to staging more often than it was pushed.
PopExclusive ==
    \A id \in OrderIds :
        /\ popped[id] + QueueCount(queue, id) = pushed[id]
        /\ \A w1, w2 \in Workers :
               (w1 # w2 /\ CountIn(wbatch[w1], id) > 0) => CountIn(wbatch[w2], id) = 0
        /\ Cardinality({r \in everStaged : r.order_id = id}) <= pushed[id]

\* both workers drained part of the same queue and each staged its batch
PopExclusiveWitness ==
    \A w \in Workers :
        /\ wret[w] # <<>>
        /\ wret[w][1].outcome = "staged"
        /\ Len(wret[w][1].drained) >= 1

\* C13: a call of ingest_orders that was not rejected returns total ==
\* len(orders), new + duplicates == total and queued == new; it appended
\* exactly queued entries to the ingestion queue, the orders mark_seen
\* reported as new, and raised the backpressure counter of 'ingestion' by
\* exactly queued.
IngestStatsConsistent ==
    \A p \in Producers :
        (ppc[p] = "idle" /\ pret[p] # <<>> /\ ~pret[p][1].throttled) =>
            LET st == pret[p][1].stats
            IN /\ st.total = Len(porders[p])
               /\ st.new + st.duplicates = st.total
               /\ st.queued = st.new
               /\ Len(pnew[p]) = st.new
               /\ pghost[p].pushed = st.queued
               /\ pghost[p].bpadd = st.queued

\* a call given the same order twice counted one new and one duplicate and
\* queued one entry
IngestStatsConsistentWitness ==
    \E p \in Producers :
        /\ ppc[p] = "idle" /\ pret[p] # <<>> /\ ~pret[p][1].throttled
        /\ Len(porders[p]) = 2
        /\ porders[p][1] = porders[p][2]
        /\ pret[p][1].stats.new = 1
        /\ pret[p][1].stats.duplicates = 1
        /\ pghost[p].pushed = 1
        /\ pghost[p].bpadd = 1

\* the lookup keys of an order's reference fields
ReferenceKeys(row) ==
    {"product:" \o row.product_id, "currency:" \o row.currency,
     "zipcode:" \o row.zip_code}

\* the positions of a batch whose orders have every reference key cached
ResolvedIn(batch) ==
    {i \in 1..Len(batch) : \A k \in ReferenceKeys(batch[i]) : Exists(cache[k])}

\* the positions whose orders also have a non-zero currency rate
UsableIn(batch) ==
    {i \in ResolvedIn(batch) : cache["currency:" \o batch[i].currency][1] # 0}

Settled(id) ==
    /\ pushed[id] > 0
    /\ QueueCount(queue, id) = 0
    /\ \A w \in Workers : CountIn(wbatch[w], id) = 0

\* C15: with a worker that keeps running process_batch, every order pushed
\* onto the ingestion queue is eventually drained and its batch finished,
\* unless the worker process crashes; and every batch that finishes counts
\* each order it drained as staged or as an error.
AtLeastOnce ==
    /\ \A id \in OrderIds :
           (pushed[id] > 0) ~> (Settled(id) \/ wpc["w1"] = "crashed")
    /\ [](\A w \in Workers :
             wret[w] # <<>> =>
                 /\ wret[w][1].stats.processed = Len(wret[w][1].drained)
                 /\ wret[w][1].stats.staged + wret[w][1].stats.errors
                        >= wret[w][1].stats.processed)

\* the three orders of one call were drained in two batches by the worker
\* that runs without max_iterations, and all were staged
AtLeastOnceWitness ==
    /\ wmax["w1"] = 0
    /\ wpc["w1"] = "pop"
    /\ \A id \in OrderIds : Settled(id)
    /\ {r.order_id : r \in everStaged} = OrderIds

\* C16: after stop() the batch that was in flight finishes, so no order the
\* worker drained is left neither staged nor counted, and the worker starts
\* no other batch: once it is back at the head of the loop it has exited.
StopFinishesBatch ==
    \A w \in Workers :
        wstopAt[w] # "none" =>
            /\ wlost[w] = <<>>
            /\ (wpc[w] = "pop" /\ wbatch[w] = <<>>) => wstopAt[w] = "pop"

\* the lookup hash that holds exactly the rows of the reference tables
RefSnapshot(tables) == [k \in CacheKeys |-> IF k \in tables THEN RefValue(k) ELSE Absent]

\* C17: while initialize_lookup_cache runs, the cache an enrichment is about
\* to read is the cache as it was before the preload or holds every row of
\* the reference tables with its new value.
PreloadSnapshotRead ==
    \A w \in Workers :
        (lpc.step # "idle" /\ wpc[w] = "enrich") =>
            \/ cache = lpre.cache
            \/ \A k \in refTables : cache[k] = RefValue(k)

\* C18: when initialize_lookup_cache has completed and the reference tables
\* are as it read them, the lookup hash holds exactly the entries of their
\* rows: a key with no row is absent.
PreloadFullRefresh ==
    (lpc.step = "idle" /\ lcalls > 0 /\ refTables = lpre.tables) =>
        cache = RefSnapshot(refTables)

\* C19: should_flush_batch returned True exactly when the batch held at
\* least batch_size events or at least batch_timeout had passed since the
\* last flush.
FlushWhenDue ==
    cflush # <<>> =>
        (cflush[1].result <=>
            (cflush[1].len >= ConsumerBatchSize \/ cflush[1].elapsed >= ConsumerBatchTimeout))

\* a batch smaller than batch_size was flushed because the timeout had passed
FlushWhenDueWitness ==
    /\ cflush # <<>>
    /\ cflush[1].result
    /\ cflush[1].len = 1
    /\ cflush[1].elapsed = ConsumerBatchTimeout
    /\ cpc = "process"

DrainDecrements ==
    /\ [](\A w \in Workers :
             /\ Len(wbatch[w]) <= BatchSize
             /\ wret[w] # <<>> => wret[w][1].stats.processed = Len(wret[w][1].drained))
    /\ [][\A w \in Workers :
             /\ (wpc[w] = "pop" /\ queue = <<>> /\ wpc'[w] # "pop") =>
                    wpc'[w] \in {"bpdec", "exited"}
             /\ (wpc[w] = "bpdec" /\ wpc'[w] # "bpdec") =>
                    /\ Len(wbatch[w]) >= 1
                    /\ get_depth(bp'["ingestion"]) =
                           get_depth(bp["ingestion"]) - Len(wbatch[w])
             /\ (wpc[w] # "bpdec" /\ wpc'[w] # wpc[w]) => bp' = bp
             /\ (witer'[w] # witer[w] /\ wret'[w][1].outcome = "empty") =>
                    /\ wret'[w][1].stats = BatchStats0
                    /\ wret'[w][1].drained = <<>>
                    /\ UNCHANGED <<bp, staging, events>>]_vars

\* a call has returned after draining batch_size records of a longer queue,
\* and the backpressure counter is what the producer added less that batch
DrainDecrementsWitness ==
    /\ wret["w1"] # <<>>
    /\ Len(wret["w1"][1].drained) = BatchSize
    /\ queue # <<>>
    /\ pghost["p1"].bpadd = BatchSize + 1
    /\ get_depth(bp["ingestion"]) = 1

\* the rows announced by the batch_staged events
RECURSIVE StagedCounts(_)
StagedCounts(evs) ==
    IF evs = <<>> THEN 0
    ELSE (IF Head(evs).event = "batch_staged" THEN Head(evs).count ELSE 0)
         + StagedCounts(Tail(evs))

\* C22: every committed bulk insert is followed by exactly one batch_staged
\* event whose count is the number of rows of that insert, and no other
\* batch_staged event exists: once no call is between its insert and its
\* publish, the events are as many as the returned calls that staged rows
\* say, each returned call that staged rows published its event, and the
\* counts of the events add up to the rows ever committed.
StagedEventPerInsert ==
    /\ \A i \in 1..Len(events) :
           events[i].event = "batch_staged" => events[i].count >= 1
    /\ (\A w \in Workers : wpc[w] # "publish") =>
           StagedCounts(events) = Cardinality(everStaged)
    /\ \A w \in Workers :
           (wret[w] # <<>> /\ wret[w][1].stats.staged > 0) =>
               /\ wret[w][1].outcome = "staged"
               /\ \E i \in 1..Len(events) :
                      /\ events[i].event = "batch_staged"
                      /\ events[i].count = wret[w][1].stats.staged

\* the jobs of the ingestion list in the order the coming pops return them
PopOrder(list) == [i \in 1..Len(list) |-> json_loads(list[Len(list) + 1 - i])]

\* the place of the order with an order_id in a list of orders
PlaceIn(orders, id) == CHOOSE i \in 1..Len(orders) : orders[i].order_id = id

OrderIdsOf(orders) == {orders[i].order_id : i \in 1..Len(orders)}

\* C23: the records of one push_batch call come back from successive pops in
\* the order of the list that was pushed (the batch being drained followed by
\* what the coming pops return keeps that order), and the rows the worker's
\* bulk inserts have written to staging are in that order too, and before
\* the records not yet written.
FifoWithinBatch ==
    \A p \in Producers :
        LET jobs == pnew[p]
            rest == wbatch["w1"] \o PopOrder(queue)
            unwritten == IF wpc["w1"] = "publish" THEN PopOrder(queue) ELSE rest
        IN /\ \A i \in 1..Len(rest) : \A j \in (i + 1)..Len(rest) :
                  (rest[i].order_id \in OrderIdsOf(jobs) /\
                   rest[j].order_id \in OrderIdsOf(jobs)) =>
                      PlaceIn(jobs, rest[i].order_id) < PlaceIn(jobs, rest[j].order_id)
           /\ \A x \in everStaged : \A y \in everStaged :
                  (x.id < y.id /\ x.order_id \in OrderIdsOf(jobs) /\
                   y.order_id \in OrderIdsOf(jobs)) =>
                      PlaceIn(jobs, x.order_id) < PlaceIn(jobs, y.order_id)
           /\ \A x \in everStaged : \A i \in 1..Len(unwritten) :
                  (x.order_id \in OrderIdsOf(jobs) /\
                   unwritten[i].order_id \in OrderIdsOf(jobs)) =>
                      PlaceIn(jobs, x.order_id) < PlaceIn(jobs, unwritten[i].order_id)

\* the orders 2, 3, 1 were pushed in one call: 2 and 3 are staged in that
\* order and 1 is the record the worker has popped next
FifoWithinBatchWitness ==
    /\ pnew["p1"] = <<OrderOf(2), OrderOf(3), OrderOf(1)>>
    /\ everStaged = {[id |-> 1, order_id |-> 2], [id |-> 2, order_id |-> 3]}
    /\ wbatch["w1"] = <<OrderOf(1)>>
    /\ queue = <<>>

\* C24: the expiry of the dedup window is set only by the insertion that
\* turns the window from empty to non-empty: no mark_seen or mark_batch call
\* applies an EXPIRE (which puts the end of the window ttl_seconds after that
\* command) to a window that already carries an expiry.
ExpirySetOnce == ~ttlMoved

\* C25: every dedup entry expires: once the mark_seen calls of the concurrent
\* producers have completed, a non-empty window carries an expiry (so that it
\* becomes empty when no further identifier is marked).
WindowCarriesExpiry ==
    ((\A p \in Producers : ppc[p] = "idle") /\ dedup # {}) => dedupTTL

\* C26: an ingest_orders call rejected by backpressure changes no shared
\* state: a call that began with the backpressure depth at max_queue_depth or
\* more has returned at once, its step left the dedup window, the ingestion
\* queue, the queue's counter and the backpressure counter as they were, and
\* it pushed and added nothing; and when the same orders were submitted again
\* and accepted, none of them was discarded as a duplicate on its first
\* mark_seen and the call queued every order it found new.
RejectedCallFrame ==
    /\ [](\A p \in Producers :
             /\ pghost[p].depth0 >= MaxQueueDepth =>
                    /\ ppc[p] = "idle"
                    /\ pret[p] # <<>> /\ pret[p][1].throttled
                    /\ pghost[p].pushed = 0
                    /\ pghost[p].bpadd = 0
             /\ (ppc[p] = "idle" /\ pcalls[p] > MaxIngest /\ ~pret[p][1].throttled) =>
                    /\ \A i \in OrderIdsOf(porders[p]) : firstCall[i] = "new"
                    /\ pret[p][1].stats.new = Len(pnew[p])
                    /\ pret[p][1].stats.queued = pret[p][1].stats.new
                    /\ pghost[p].pushed = pret[p][1].stats.new)
    /\ [][\A p \in Producers :
             (ppc[p] = "idle" /\ pcalls'[p] # pcalls[p] /\ pret'[p][1].throttled) =>
                 UNCHANGED <<dedup, dedupTTL, queue, qcounter, bp>>]_vars

\* a call with order 3 was rejected while the queue held orders 1 and 2; the
\* worker drained the queue, the same call was made again and order 3 was
\* accepted as new and queued
RejectedCallFrameWitness ==
    \E p \in Producers :
        /\ ppc[p] = "idle"
        /\ pcalls[p] = MaxIngest + 1
        /\ porders[p] = <<OrderOf(3)>>
        /\ ~pret[p][1].throttled
        /\ pret[p][1].stats.new = 1
        /\ pushed[3] = 1
        /\ json_dumps(OrderOf(3)) \in Range(queue)

\* no ingest_orders call, process_batch call or clear command is in flight
Quiescent ==
    /\ \A p \in Producers : ppc[p] = "idle"
    /\ \A w \in Workers :
           wpc[w] \in {"new", "exited"} \/ (wpc[w] = "pop" /\ wbatch[w] = <<>>)
    /\ clr.step = "idle"

\* C27: whenever no ingest_orders or process_batch call is in flight, the
\* backpressure depth of 'ingestion' equals the length of the ingestion
\* queue, after any completed ingest_orders calls, process_batch calls and
\* clear commands; producers are not throttled while the queue is empty.
DepthTracksQueue ==
    Quiescent =>
        /\ get_depth(bp["ingestion"]) = Len(queue)
        /\ queue = <<>> => ~should_throttle(bp["ingestion"], MaxQueueDepth)

\* C28: the backpressure depth of 'ingestion' is never negative, however the
\* producers' ingest_orders calls and the workers' process_batch calls
\* interleave.
DepthNeverNegative == get_depth(bp["ingestion"]) >= 0

\* the events handed to the process_batch calls that have ended
Handled == (1..cread) \ Range(cbatch)

\* C29: every event of a batch handled by process_batch is in exactly one of
\* two places: in the events table and acknowledged on the stream, or in the
\* dead-letter stream and neither inserted nor acknowledged; only inserted
\* events are acknowledged.
EventEndsOnce ==
    /\ cstore.acked \subseteq cstore.inserted
    /\ \A e \in Handled :
           \/ e \in cstore.inserted /\ e \in cstore.acked /\ e \notin cstore.dlq
           \/ e \in cstore.dlq /\ e \notin cstore.inserted /\ e \notin cstore.acked


\* what every ended _handle_failure call left: a job at an attempt below
\* max_job_attempts left exactly one copy of itself for the next attempt,
\* asleep in its task or pushed after the backoff delay; a job at
\* max_job_attempts or above left a recorded failure and one dead-letter
\* object, and nothing to push; no run was handled more than max_job_attempts
\* times
RetryOutcome ==
    /\ \A r \in 1..MaxRuns :
          /\ jstore.calls[r] <= MaxJobAttempts
          /\ jstore.copies[r] = Cardinality({p \in jstore.pushes : p.job.run_id = r})
    /\ \A j \in jstore.ended :
          LET asleep == {t \in jtasks : t.job = j}
              done == {p \in jstore.pushes : p.job = [run_id |-> j.run_id,
                                                      attempt |-> j.attempt + 1]}
              grown == BackoffBaseSeconds * (2 ^ (j.attempt - 1))
              delay == IF BackoffCapSeconds < grown THEN BackoffCapSeconds ELSE grown
          IN IF j.attempt < MaxJobAttempts
             THEN /\ Cardinality(asleep) + Cardinality(done) = 1
                  /\ \A p \in done : p.waited = delay
             ELSE /\ j \in jstore.failures
                  /\ jstore.dead[j.run_id] = 1
                  /\ asleep = {}
                  /\ done = {}

\* a run is out of the queue: no job of it is queued, in hand or asleep
RunGone(r) ==
    /\ \A i \in 1..Len(jq) : jq[i].run_id # r
    /\ jjob.run_id # r
    /\ \A t \in jtasks : t.job.run_id # r

\* an enqueued run that fails at every attempt reaches the dead-letter store
\* and leaves the queue
FailingRunDeadLettered ==
    \A r \in AlwaysFailing :
        (r \in jstore.enqueued) ~> (jstore.dead[r] = 1 /\ RunGone(r))

\* C30: a job run is attempted at most max_job_attempts times; a failure below
\* max_job_attempts re-enqueues exactly one copy with the same run_id and
\* attempt + 1 after min(backoff_cap_seconds, backoff_base_seconds *
\* 2^(attempt-1)) seconds, a failure at max_job_attempts or above records the
\* failure, writes one dead-letter object and re-enqueues nothing, and a job
\* that always fails eventually reaches the dead-letter store and leaves the
\* queue
RetryThenDeadLetter == []RetryOutcome /\ FailingRunDeadLettered

====
